---- MODULE Spec2Model ----
(***************************************************************************)
(* Model of st6_operational_check.py: the OperationalCheck object, its     *)
(* six checks, print_summary and main().  The environment the checks probe *)
(* (interpreter version, OPENAI_API_KEY, importable packages, the API, the *)
(* files of the working tree, git) is the input, held in env.              *)
(* Text is a sequence of one-character strings where the code looks inside *)
(* it (startswith, endswith, in, len) and a sequence of string fragments   *)
(* where the code only builds it (the details of a result).  The output of *)
(* git, which the code strips, is a sequence of Unicode code points.       *)
(***************************************************************************)
EXTENDS Integers, Sequences, FiniteSets, TLC

VARIABLES pc, self, env, prev, summary, exit_code

vars == <<pc, self, env, prev, summary, exit_code>>

(* ---------------------------- bounds ---------------------------------- *)
MaxPad == 19        \* filler characters appended to a key prefix
MaxFiles == 2       \* files present in the working tree
MaxChunks == 2      \* fragments a file content is made of
MaxGitOut == 2      \* characters of git's standard output
MaxCalls == 4       \* direct check_result / warning_result calls

(* ------------------------- text helpers -------------------------------- *)
SK == <<"s", "k", "-">>
OPENAI_API_KEY == <<"O","P","E","N","A","I","_","A","P","I","_","K","E","Y">>
DOT_PY == <<".", "p", "y">>
DOT_GIT == ".git"
\* the code points c with chr(c).isspace(): what str.strip() removes
Whitespace == {9, 10, 11, 12, 13, 28, 29, 30, 31, 32, 133, 160, 5760}
              \cup (8192..8202) \cup {8232, 8233, 8239, 8287, 12288}
\* code points of ' ', '\n', form feed, ideographic space, 'M'
SPACE == 32
NEWLINE == 10
FORM_FEED == 12
IDEOGRAPHIC_SPACE == 12288
LETTER_M == 77

startswith(s, p) == Len(s) >= Len(p) /\ SubSeq(s, 1, Len(p)) = p

endswith(s, p) == Len(s) >= Len(p) /\ SubSeq(s, Len(s) - Len(p) + 1, Len(s)) = p

contains(s, p) == \E i \in 1..(Len(s) - Len(p) + 1) : SubSeq(s, i, i + Len(p) - 1) = p

RECURSIVE lstrip(_)
lstrip(s) == IF s # <<>> /\ Head(s) \in Whitespace THEN lstrip(Tail(s)) ELSE s

RECURSIVE rstrip(_)
rstrip(s) == IF s # <<>> /\ s[Len(s)] \in Whitespace
             THEN rstrip(SubSeq(s, 1, Len(s) - 1)) ELSE s

strip(s) == rstrip(lstrip(s))

RECURSIVE join(_, _)
join(sep, xs) == IF xs = <<>> THEN <<>>
                 ELSE IF Len(xs) = 1 THEN <<xs[1]>>
                 ELSE <<xs[1], sep>> \o join(sep, Tail(xs))

RECURSIVE Flatten(_)
Flatten(ss) == IF ss = <<>> THEN <<>> ELSE Head(ss) \o Flatten(Tail(ss))

\* tuple comparison a >= b, lexicographic, a longer tuple above its prefix
RECURSIVE tuple_ge(_, _)
tuple_ge(a, b) == IF b = <<>> THEN TRUE
                  ELSE IF a = <<>> THEN FALSE
                  ELSE IF Head(a) # Head(b) THEN Head(a) > Head(b)
                  ELSE tuple_ge(Tail(a), Tail(b))

(* --------------------- OperationalCheck object ------------------------- *)
\* calls is a history field: how often each recorder was called
OperationalCheck_init ==
    [checks_passed |-> 0, checks_failed |-> 0, warnings |-> 0,
     results |-> <<>>, out |-> <<>>,
     calls |-> [check_result |-> 0, warning_result |-> 0]]

Line(kind, name, details) == [kind |-> kind, name |-> name, details |-> details]

print_header(m) == [m EXCEPT !.out = Append(@, Line("HEADER", "header", <<>>))]

\* variant of check_result: counts every result as passed as well
check_result_double(m, check_name, passed, details) ==
    [m EXCEPT !.checks_passed = @ + 1,
              !.checks_failed = IF passed THEN @ ELSE @ + 1,
              !.results = Append(@, <<check_name, passed, details>>),
              !.out = Append(@, Line(IF passed THEN "PASS" ELSE "FAIL", check_name, details)),
              !.calls.check_result = @ + 1]

check_result(m, check_name, passed, details) ==
    [m EXCEPT !.checks_passed = IF passed THEN @ + 1 ELSE @,
              !.checks_failed = IF passed THEN @ ELSE @ + 1,
              !.results = Append(@, <<check_name, passed, details>>),
              !.out = Append(@, Line(IF passed THEN "PASS" ELSE "FAIL", check_name, details)),
              !.calls.check_result = @ + 1]

warning_result(m, check_name, details) ==
    [m EXCEPT !.warnings = @ + 1,
              !.out = Append(@, Line("WARN", check_name, details)),
              !.calls.warning_result = @ + 1]

\* outcome of a method call: the object after it, and whether an exception
\* left the method uncaught
Returned(m) == [m |-> m, raised |-> FALSE]
Raised(m) == [m |-> m, raised |-> TRUE]

(* ----------------------------- checks ---------------------------------- *)
min_version == <<3, 8>>

check_python_version(m, version) ==
    LET passed == tuple_ge(version, min_version)
        base == <<"Python ", ToString(version[1]), ".", ToString(version[2]),
                  ".", ToString(version[3])>>
        details == IF passed THEN base
                   ELSE base \o <<" (Minimum required: ", ToString(min_version[1]),
                                  ".", ToString(min_version[2]), ")">>
    IN Returned(check_result(m, "Python Version", passed, details))

\* os.getenv: None when the variable is unset, else its value
os_getenv(var) == IF var.set THEN [is_none |-> FALSE, value |-> var.value]
                  ELSE [is_none |-> TRUE, value |-> <<>>]

MSG_NOT_SET == <<"OPENAI_API_KEY environment variable not set">>
MSG_VALID == <<"Key format appears valid">>
MSG_SHORT == <<"Key appears too short">>
MSG_FORMAT == <<"Key format invalid (should start with 'sk-')">>

\* variant of check_openai_api_key: length test >= 20
check_openai_api_key_min20(m, var) ==
    LET api_key == os_getenv(var)
    IN IF api_key.is_none \/ api_key.value = <<>>
       THEN Returned(check_result(m, "OpenAI API Key", FALSE, MSG_NOT_SET))
       ELSE IF startswith(api_key.value, SK)
            THEN IF Len(api_key.value) >= 20
                 THEN Returned(check_result(m, "OpenAI API Key", TRUE, MSG_VALID))
                 ELSE Returned(check_result(m, "OpenAI API Key", FALSE, MSG_SHORT))
            ELSE Returned(check_result(m, "OpenAI API Key", FALSE, MSG_FORMAT))

check_openai_api_key(m, var) ==
    LET api_key == os_getenv(var)
    IN IF api_key.is_none \/ api_key.value = <<>>
       THEN Returned(check_result(m, "OpenAI API Key", FALSE, MSG_NOT_SET))
       ELSE IF startswith(api_key.value, SK)
            THEN IF Len(api_key.value) > 20
                 THEN Returned(check_result(m, "OpenAI API Key", TRUE, MSG_VALID))
                 ELSE Returned(check_result(m, "OpenAI API Key", FALSE, MSG_SHORT))
            ELSE Returned(check_result(m, "OpenAI API Key", FALSE, MSG_FORMAT))

required_packages ==
    <<"openai", "requests", "numpy", "pandas", "matplotlib", "jupyter", "tiktoken">>

\* importlib.import_module(p): "ok", "ImportError", or "Exception" (any
\* exception that is not an ImportError, raised by the package's own code)
ImportOutcomes == {"ok", "ImportError", "Exception"}

RECURSIVE collect_missing(_, _)
collect_missing(imports, pkgs) ==
    IF pkgs = <<>> THEN Returned(<<>>)
    ELSE IF imports[Head(pkgs)] = "ok" THEN collect_missing(imports, Tail(pkgs))
    ELSE IF imports[Head(pkgs)] = "ImportError"
         THEN LET rest == collect_missing(imports, Tail(pkgs))
              IN [m |-> <<Head(pkgs)>> \o rest.m, raised |-> rest.raised]
    ELSE Raised(<<>>)

\* variant of check_required_packages: lists the whole required list
check_required_packages_all(m, imports) ==
    LET missing_packages == collect_missing(imports, required_packages)
    IN IF missing_packages.raised THEN Raised(m)
       ELSE IF missing_packages.m = <<>>
            THEN Returned(check_result(m, "Required Packages", TRUE,
                                       <<"All critical packages installed">>))
            ELSE Returned(check_result(m, "Required Packages", FALSE,
                     <<"Missing packages: ">> \o join(", ", required_packages)))

check_required_packages(m, imports) ==
    LET missing_packages == collect_missing(imports, required_packages)
    IN IF missing_packages.raised THEN Raised(m)
       ELSE IF missing_packages.m = <<>>
            THEN Returned(check_result(m, "Required Packages", TRUE,
                                       <<"All critical packages installed">>))
            ELSE Returned(check_result(m, "Required Packages", FALSE,
                     <<"Missing packages: ">> \o join(", ", missing_packages.m)))

\* api: how the try block of lines 140-146 (import openai, openai.OpenAI(),
\* client.models.list()) ends: raised "none", or the kind of exception that
\* leaves it ("ImportError" or a subclass, "Exception" for any other
\* Exception, "KeyboardInterrupt" for a BaseException that is no Exception)
\* and its str()
check_openai_connectivity(m, api) ==
    IF api.raised = "none"
    THEN Returned(check_result(m, "OpenAI API Connectivity", TRUE,
                               <<"API accessible and responding">>))
    ELSE IF api.raised = "ImportError"
    THEN Returned(check_result(m, "OpenAI API Connectivity", FALSE,
                               <<"OpenAI package not installed">>))
    ELSE IF api.raised = "Exception"
    THEN Returned(check_result(m, "OpenAI API Connectivity", FALSE,
                               <<"Connection failed: ", api.message>>))
    ELSE Raised(m)

(* ------------------------- working tree -------------------------------- *)
\* A file path is <<dir, name>>: dir the directory components from '.',
\* name the characters of the file name.  fs maps the paths present to
\* [readable, content]; open() or read() of an unreadable file raises.
A_PY == <<"a", ".", "p", "y">>
A_TXT == <<"a", ".", "t", "x", "t">>
DirNameOrder == <<DOT_GIT, "pkg">>
FileNameOrder == <<A_PY, A_TXT>>

listdir_dirs(fs, root) ==
    SelectSeq(DirNameOrder,
              LAMBDA d : \E p \in DOMAIN fs : startswith(p[1], root \o <<d>>))

listdir_files(fs, root) ==
    SelectSeq(FileNameOrder, LAMBDA f : <<root, f>> \in DOMAIN fs)

os_path_join(root, file) == join("/", root) \o <<"/">> \o file

\* variant of is_leak: ignores the presence of OPENAI_API_KEY
is_leak_any_sk(content) == contains(content, SK)

is_leak(content) == contains(content, SK) /\ ~contains(content, OPENAI_API_KEY)

scan_file(fs, root, file) ==
    IF endswith(file, DOT_PY)
    THEN IF fs[<<root, file>>].readable
         THEN IF is_leak(fs[<<root, file>>].content)
              THEN <<(<<"Potential hardcoded key in ">> \o os_path_join(root, file))>>
              ELSE <<>>
         ELSE <<>>
    ELSE <<>>

remove_git(dirs) == SelectSeq(dirs, LAMBDA d : d # DOT_GIT)

RECURSIVE scan_tree(_, _)
scan_tree(fs, root) ==
    LET dirs == remove_git(listdir_dirs(fs, root))
        files == listdir_files(fs, root)
        here == Flatten([i \in 1..Len(files) |-> scan_file(fs, root, files[i])])
    IN here \o Flatten([i \in 1..Len(dirs) |-> scan_tree(fs, root \o <<dirs[i]>>)])

RECURSIVE record_issues(_, _)
record_issues(m, issues) ==
    IF issues = <<>> THEN m
    ELSE record_issues(check_result(m, "Security Protocols", FALSE, Head(issues)),
                       Tail(issues))

\* variant of check_security_protocols: .env warning after the results
check_security_protocols_warn_last(m, dotenv, fs) ==
    LET issues == scan_tree(fs, <<".">>)
        m1 == IF issues = <<>>
              THEN check_result(m, "Security Protocols", TRUE,
                                <<"No obvious security issues detected">>)
              ELSE record_issues(m, issues)
    IN IF dotenv
       THEN Returned(warning_result(m1, "Security Check",
                         <<".env file present - ensure it's in .gitignore">>))
       ELSE Returned(m1)

check_security_protocols(m, dotenv, fs) ==
    LET m1 == IF dotenv
              THEN warning_result(m, "Security Check",
                       <<".env file present - ensure it's in .gitignore">>)
              ELSE m
        issues == scan_tree(fs, <<".">>)
    IN IF issues = <<>>
       THEN Returned(check_result(m1, "Security Protocols", TRUE,
                                  <<"No obvious security issues detected">>))
       ELSE Returned(record_issues(m1, issues))

(* ------------------------------- git ----------------------------------- *)
\* git: what subprocess.run(['git','status','--porcelain']) does:
\* raised "none" with a returncode and stdout, or the exception it raises
\* variant of check_git_status: uncommitted changes also recorded as a Fail
check_git_status_strict(m, git) ==
    IF git.raised = "FileNotFoundError"
    THEN Returned(check_result(m, "Git Status", FALSE, <<"Git not installed">>))
    ELSE IF git.raised # "none" THEN Raised(m)
    ELSE IF git.returncode = 0
         THEN IF strip(git.stdout) # <<>>
              THEN Returned(check_result(
                       warning_result(m, "Git Status", <<"Uncommitted changes detected">>),
                       "Git Status", FALSE, <<"Uncommitted changes detected">>))
              ELSE Returned(check_result(m, "Git Status", TRUE, <<"Working directory clean">>))
         ELSE Returned(check_result(m, "Git Status", FALSE,
                                    <<"Not a git repository or git error">>))

\* variant of check_git_status: output not stripped
check_git_status_nostrip(m, git) ==
    IF git.raised = "FileNotFoundError"
    THEN Returned(check_result(m, "Git Status", FALSE, <<"Git not installed">>))
    ELSE IF git.raised # "none" THEN Raised(m)
    ELSE IF git.returncode = 0
         THEN IF git.stdout # <<>>
              THEN Returned(warning_result(m, "Git Status", <<"Uncommitted changes detected">>))
              ELSE Returned(check_result(m, "Git Status", TRUE, <<"Working directory clean">>))
         ELSE Returned(check_result(m, "Git Status", FALSE,
                                    <<"Not a git repository or git error">>))

check_git_status(m, git) ==
    IF git.raised = "FileNotFoundError"
    THEN Returned(check_result(m, "Git Status", FALSE, <<"Git not installed">>))
    ELSE IF git.raised # "none" THEN Raised(m)
    ELSE IF git.returncode = 0
         THEN IF strip(git.stdout) # <<>>
              THEN Returned(warning_result(m, "Git Status", <<"Uncommitted changes detected">>))
              ELSE Returned(check_result(m, "Git Status", TRUE, <<"Working directory clean">>))
         ELSE Returned(check_result(m, "Git Status", FALSE,
                                    <<"Not a git repository or git error">>))

(* ----------------------------- summary --------------------------------- *)
\* Binary floating point (IEEE double, 53 significant bits, round half to
\* even), as far as print_summary uses it.  A natural number is a sequence
\* of bits, lowest bit first; a double is such a number m and a scale s,
\* standing for m / 2^s.
MANT_DIG == 53

Zeros(n) == [i \in 1..n |-> 0]

Reverse(a) == [i \in 1..Len(a) |-> a[Len(a) + 1 - i]]

RECURSIVE big_add(_, _, _)
big_add(a, b, carry) ==
    IF a = <<>> /\ b = <<>> THEN (IF carry = 1 THEN <<1>> ELSE <<>>)
    ELSE LET x == IF a = <<>> THEN 0 ELSE Head(a)
             y == IF b = <<>> THEN 0 ELSE Head(b)
             t == x + y + carry
         IN <<t % 2>> \o big_add(IF a = <<>> THEN <<>> ELSE Tail(a),
                                 IF b = <<>> THEN <<>> ELSE Tail(b), t \div 2)

RECURSIVE big_trim(_)
big_trim(a) == IF a # <<>> /\ a[Len(a)] = 0 THEN big_trim(SubSeq(a, 1, Len(a) - 1)) ELSE a

big_mul100(a) == big_add(big_add(Zeros(6) \o a, Zeros(5) \o a, 0), Zeros(2) \o a, 0)

big_mul10(a) == big_add(Zeros(3) \o a, Zeros(1) \o a, 0)

RECURSIVE big_to_int(_)
big_to_int(a) == IF a = <<>> THEN 0 ELSE Head(a) + 2 * big_to_int(Tail(a))

\* a / 2^d rounded to an integer, half to even
round_shift(a, d) ==
    IF d = 0 THEN a
    ELSE LET p == a \o Zeros(IF Len(a) > d THEN 0 ELSE d + 1 - Len(a))
             kept == SubSeq(p, d + 1, Len(p))
             guard == p[d]
             sticky == \E i \in 1..(d - 1) : p[i] = 1
         IN IF guard = 1 /\ (sticky \/ kept[1] = 1)
            THEN big_trim(big_add(kept, <<1>>, 0)) ELSE big_trim(kept)

\* the smallest k with p * 2^k >= t
RECURSIVE norm_shift(_, _)
norm_shift(p, t) == IF p >= t THEN 0 ELSE 1 + norm_shift(2 * p, t)

RECURSIVE pow2(_)
pow2(k) == IF k = 0 THEN 1 ELSE 2 * pow2(k - 1)

\* the next n bits of r / t (r < t), highest first, and the remainder left;
\* long division, DIV_STEP bits at a step (n a multiple of DIV_STEP,
\* t below 2^27 so that r * 2^DIV_STEP stays a machine integer of the checker)
DIV_STEP == 4

step_bits(q) == [i \in 1..DIV_STEP |-> (q \div pow2(DIV_STEP - i)) % 2]

RECURSIVE div_bits(_, _, _)
div_bits(r, t, n) ==
    IF n = 0 THEN [bits |-> <<>>, rem |-> r]
    ELSE LET q == (r * pow2(DIV_STEP)) \div t
             rest == div_bits((r * pow2(DIV_STEP)) % t, t, n - DIV_STEP)
         IN [bits |-> step_bits(q) \o rest.bits, rem |-> rest.rem]

\* p / t for 0 < p <= t
float_div(p, t) ==
    LET k == norm_shift(p, t)
        d == div_bits(p * pow2(k) - t, t, MANT_DIG - 1)
        m == Reverse(<<1>> \o d.bits)
        up == 2 * d.rem > t \/ (2 * d.rem = t /\ m[1] = 1)
    IN [m |-> IF up THEN big_add(m, <<1>>, 0) ELSE m, s |-> k + MANT_DIG - 1]

\* x * 100
float_mul100(x) ==
    LET prod == big_trim(big_mul100(x.m))
        d == IF Len(prod) > MANT_DIG THEN Len(prod) - MANT_DIG ELSE 0
    IN [m |-> round_shift(prod, d), s |-> x.s - d]

\* format(x, '.1f') as a number of tenths: the exact value of the double
\* rounded half to even
format_1f(x) == big_to_int(round_shift(big_mul10(x.m), x.s))

\* '{:.1f}' of checks_passed / total_checks * 100, in tenths of a percent
float_rate(passed, total) ==
    IF passed = 0 THEN 0
    ELSE format_1f(float_mul100(float_div(passed, total)))

\* float_rate of the small totals, computed once
SmallTotals == {pt \in (0..12) \X (1..12) : pt[1] <= pt[2]}
SmallRates == {<<pt, float_rate(pt[1], pt[2])>> : pt \in SmallTotals}

rate_tenths(passed, total) ==
    IF <<passed, total>> \in SmallTotals
    THEN (CHOOSE e \in SmallRates : e[1] = <<passed, total>>)[2]
    ELSE float_rate(passed, total)

\* variant of status_line: warnings also make it 'not ready'
status_line_warn(m) == IF m.checks_failed = 0 /\ m.warnings = 0 THEN "READY FOR OPERATIONS"
                       ELSE "NOT READY - RESOLVE ISSUES"

status_line(m) == IF m.checks_failed = 0 THEN "READY FOR OPERATIONS"
                  ELSE "NOT READY - RESOLVE ISSUES"

NoSummary == [printed |-> FALSE, passed |-> 0, failed |-> 0, warnings |-> 0,
              total |-> 0, success_rate |-> 0, status |-> ""]

summary_of(m) ==
    LET total_checks == m.checks_passed + m.checks_failed
    IN [printed |-> TRUE, passed |-> m.checks_passed, failed |-> m.checks_failed,
        warnings |-> m.warnings, total |-> total_checks,
        success_rate |-> IF total_checks > 0
                         THEN rate_tenths(m.checks_passed, total_checks) ELSE 0,
        status |-> status_line(m)]

print_summary(m) == [m EXCEPT !.out = Append(@, Line("SUMMARY", status_line(m), <<>>))]

\* variant of exit_status: warnings also give 1
exit_status_warn(m) == IF m.checks_failed = 0 /\ m.warnings = 0 THEN 0 ELSE 1

exit_status(m) == IF m.checks_failed = 0 THEN 0 ELSE 1

(* --------------------------- environments ------------------------------ *)
SeqsUpTo(S, n) == UNION {[1..k -> S] : k \in 0..n}

Pad(n) == [i \in 1..n |-> "x"]

KeyValues == {p \o Pad(n) : p \in SeqsUpTo({"s", "k", "-"}, 3), n \in 0..MaxPad}

Unset == [set |-> FALSE, value |-> <<>>]
SetTo(v) == [set |-> TRUE, value |-> v]

KeyVars == {Unset} \cup {SetTo(v) : v \in KeyValues}

Versions == {<<2, 7, 18>>, <<3, 7, 9>>, <<3, 8, 0>>, <<3, 12, 1>>, <<4, 0, 0>>}

Packages == {required_packages[i] : i \in 1..Len(required_packages)}
AllOk == [p \in Packages |-> "ok"]
ImportMaps == [Packages -> ImportOutcomes]

ApiOk == [raised |-> "none", message |-> ""]
ApiRaised(e, msg) == [raised |-> e, message |-> msg]
ApiNoModule == ApiRaised("ImportError", "No module named 'openai'")
Apis == {ApiOk, ApiNoModule, ApiRaised("ImportError", "No module named 'httpx'"),
         ApiRaised("Exception", "Connection error."),
         ApiRaised("Exception", "Incorrect API key provided"),
         ApiRaised("KeyboardInterrupt", "")}

\* contents: every sequence of up to MaxChunks fragments 'sk-' and
\* 'OPENAI_API_KEY', and three near misses of 'sk-'
Chunks == {SK, OPENAI_API_KEY}
NearMisses == {<<"s", "k">>, <<"s", "-", "k">>, <<"s", "k">> \o SK}
Contents == {Flatten(cs) : cs \in SeqsUpTo(Chunks, MaxChunks)} \cup NearMisses
FileStates == {[readable |-> FALSE, content |-> <<>>]}
              \cup {[readable |-> TRUE, content |-> c] : c \in Contents}
ROOT == <<".">>
FilePaths == {<<ROOT, A_PY>>, <<ROOT, A_TXT>>, <<(<<".", DOT_GIT>>), A_PY>>,
              <<(<<".", "pkg">>), A_PY>>, <<(<<".", "pkg">>), A_TXT>>,
              <<(<<".", "pkg", DOT_GIT>>), A_PY>>}
Trees == UNION {[D -> FileStates] :
                D \in {D \in SUBSET FilePaths : Cardinality(D) <= MaxFiles}}
EmptyTree == [p \in {} |-> [readable |-> TRUE, content |-> <<>>]]

GitRan(rc, out) == [raised |-> "none", returncode |-> rc, stdout |-> out]
GitRaised(e) == [raised |-> e, returncode |-> 0, stdout |-> <<>>]
GitChars == {SPACE, NEWLINE, FORM_FEED, IDEOGRAPHIC_SPACE, LETTER_M}
GitOutcomes == {GitRan(rc, out) : rc \in {0, 1, 128},
                                  out \in SeqsUpTo(GitChars, MaxGitOut)}
               \cup {GitRaised("FileNotFoundError"), GitRaised("PermissionError")}

GoodKey == SetTo(SK \o Pad(25))

\* 'import openai' of the connectivity check fails as it did in the package
\* check: with openai not importable the try block ends in that ImportError
Consistent(e) == e.imports["openai"] = "ImportError" => e.api = ApiNoModule

Envs(versions, keys, imports, apis, dotenvs, trees, gits) ==
    {e \in [version : versions, api_key : keys, imports : imports, api : apis,
            dotenv : dotenvs, fs : trees, git : gits] : Consistent(e)}

\* the environments of the full run: a selection that takes every branch
RunKeys == {Unset, SetTo(<<>>), SetTo(<<"s", "k", "-", "s", "h", "o", "r", "t">>),
            SetTo(<<"b", "a", "d">> \o Pad(20)), GoodKey}
RunImports == {AllOk, [AllOk EXCEPT !["openai"] = "ImportError"],
               [AllOk EXCEPT !["numpy"] = "ImportError", !["tiktoken"] = "ImportError"],
               [AllOk EXCEPT !["pandas"] = "Exception"]}
Leak == [readable |-> TRUE, content |-> SK \o Pad(2)]
RunTrees == {EmptyTree,
             [p \in {<<ROOT, A_PY>>} |-> Leak],
             [p \in {<<ROOT, A_PY>>, <<(<<".", "pkg">>), A_PY>>} |-> Leak],
             [p \in {<<ROOT, A_PY>>} |-> [readable |-> TRUE,
                                          content |-> SK \o OPENAI_API_KEY]]}
RunGits == {GitRan(0, <<>>), GitRan(0, <<FORM_FEED, NEWLINE>>),
            GitRan(0, <<LETTER_M, SPACE>>),
            GitRan(128, <<>>), GitRaised("FileNotFoundError"),
            GitRaised("PermissionError")}

RunEnvs == Envs({<<3, 7, 9>>, <<3, 8, 0>>, <<3, 12, 1>>}, RunKeys, RunImports,
                Apis, BOOLEAN, RunTrees, RunGits)

\* one probe varied over its whole bounded range, the rest of the run kept small
KeyEnvs == Envs({<<3, 12, 1>>}, KeyVars, {AllOk}, {ApiOk}, {FALSE}, {EmptyTree},
                {GitRan(0, <<>>)})
PkgEnvs == Envs({<<3, 12, 1>>}, {GoodKey}, ImportMaps, {ApiOk, ApiNoModule}, {FALSE},
                {EmptyTree},
                {GitRan(0, <<>>)})
ScanEnvs == Envs({<<3, 12, 1>>}, {GoodKey}, {AllOk}, {ApiOk}, BOOLEAN, Trees,
                 {GitRan(0, <<>>)})
GitEnvs == Envs({<<3, 12, 1>>}, {GoodKey, Unset}, {AllOk}, {ApiOk}, BOOLEAN,
                {EmptyTree}, GitOutcomes)

(* ------------------------------ main ----------------------------------- *)
NoCode == -1
Begin == [m |-> OperationalCheck_init, step |-> "none"]

Start(envs) ==
    /\ pc = "start"
    /\ env \in envs
    /\ self = OperationalCheck_init
    /\ prev = Begin
    /\ summary = NoSummary
    /\ exit_code = NoCode

Init == Start(RunEnvs)
InitKey == Start(KeyEnvs)
InitPkg == Start(PkgEnvs)
InitScan == Start(ScanEnvs)
InitGit == Start(GitEnvs)

\* one statement of main() calling a check: on return main goes on to the
\* next statement, on an uncaught exception main is left
Call(step, r, next) ==
    /\ pc = step
    /\ prev' = [m |-> self, step |-> step]
    /\ self' = r.m
    /\ pc' = IF r.raised THEN "raised" ELSE next
    /\ UNCHANGED <<env, summary, exit_code>>

PrintHeader ==
    Call("start", Returned(print_header(self)), "python_version")

CheckPythonVersion ==
    Call("python_version", check_python_version(self, env.version), "openai_api_key")

CheckOpenaiApiKey ==
    Call("openai_api_key", check_openai_api_key(self, env.api_key), "required_packages")

CheckRequiredPackages ==
    Call("required_packages", check_required_packages(self, env.imports),
         "openai_connectivity")

CheckOpenaiConnectivity ==
    Call("openai_connectivity", check_openai_connectivity(self, env.api),
         "security_protocols")

CheckSecurityProtocols ==
    Call("security_protocols", check_security_protocols(self, env.dotenv, env.fs),
         "git_status")

CheckGitStatus ==
    Call("git_status", check_git_status(self, env.git), "print_summary")

PrintSummary ==
    /\ pc = "print_summary"
    /\ prev' = [m |-> self, step |-> "print_summary"]
    /\ summary' = summary_of(self)
    /\ self' = print_summary(self)
    /\ pc' = "return"
    /\ UNCHANGED <<env, exit_code>>

MainReturn ==
    /\ pc = "return"
    /\ exit_code' = exit_status(self)
    /\ pc' = "done"
    /\ UNCHANGED <<self, env, prev, summary>>

Next ==
    \/ PrintHeader
    \/ CheckPythonVersion
    \/ CheckOpenaiApiKey
    \/ CheckRequiredPackages
    \/ CheckOpenaiConnectivity
    \/ CheckSecurityProtocols
    \/ CheckGitStatus
    \/ PrintSummary
    \/ MainReturn

Spec == Init /\ [][Next]_vars
SpecKey == InitKey /\ [][Next]_vars
SpecPkg == InitPkg /\ [][Next]_vars
SpecScan == InitScan /\ [][Next]_vars
SpecGit == InitGit /\ [][Next]_vars

(* -------- the recorder called directly, then summary and exit ---------- *)
Names == {"Python Version", "Git Status"}
Details == {<<>>, <<"Working directory clean">>}
DirectEnv == CHOOSE e \in RunEnvs : TRUE

InitDirect ==
    /\ pc = "direct"
    /\ env = DirectEnv
    /\ self = OperationalCheck_init
    /\ prev = Begin
    /\ summary = NoSummary
    /\ exit_code = NoCode

CallsMade(m) == m.calls.check_result + m.calls.warning_result

CallCheckResult ==
    /\ pc = "direct"
    /\ CallsMade(self) < MaxCalls
    /\ \E name \in Names, passed \in BOOLEAN, details \in Details :
          self' = check_result(self, name, passed, details)
    /\ prev' = [m |-> self, step |-> "check_result"]
    /\ UNCHANGED <<pc, env, summary, exit_code>>

CallWarningResult ==
    /\ pc = "direct"
    /\ CallsMade(self) < MaxCalls
    /\ \E name \in Names, details \in Details :
          self' = warning_result(self, name, details)
    /\ prev' = [m |-> self, step |-> "warning_result"]
    /\ UNCHANGED <<pc, env, summary, exit_code>>

CallPrintSummary ==
    /\ pc = "direct"
    /\ prev' = [m |-> self, step |-> "print_summary"]
    /\ summary' = summary_of(self)
    /\ self' = print_summary(self)
    /\ pc' = "return"
    /\ UNCHANGED <<env, exit_code>>

NextDirect == CallCheckResult \/ CallWarningResult \/ CallPrintSummary \/ MainReturn

SpecDirect == InitDirect /\ [][NextDirect]_vars

\* main() and the directly driven object together
InitAll == Init \/ InitDirect
NextAll == Next \/ CallCheckResult \/ CallWarningResult \/ CallPrintSummary
SpecAll == InitAll /\ [][NextAll]_vars

(* ============================ properties =============================== *)
Total(m) == m.checks_passed + m.checks_failed

\* the call of the named step has returned and nothing has run since
After(step) == prev.step = step /\ pc # "raised"

\* the results and the counters the last step added
NewResults == SubSeq(self.results, Len(prev.m.results) + 1, Len(self.results))
NewPassed == self.checks_passed - prev.m.checks_passed
NewFailed == self.checks_failed - prev.m.checks_failed
NewWarnings == self.warnings - prev.m.warnings

OneResult == Len(NewResults) = 1 /\ NewPassed + NewFailed = 1

CheckNames == {"Python Version", "OpenAI API Key", "Required Packages",
               "OpenAI API Connectivity", "Security Protocols", "Git Status"}

Emitted(name) == \E i \in 1..Len(self.out) :
                    self.out[i].name = name /\ self.out[i].kind \in {"PASS", "FAIL", "WARN"}

Dirty == env.git.raised = "none" /\ env.git.returncode = 0
         /\ \E i \in 1..Len(env.git.stdout) : env.git.stdout[i] \notin Whitespace

\* C1: when main() returns, all six checks have emitted an outcome and the
\* exit code is 0 if checks_failed is 0 and 1 otherwise, whatever the number
\* of warnings.
C1_ExitCodeIffNoFailures ==
    pc = "done" =>
        /\ \A n \in CheckNames : Emitted(n)
        /\ exit_code \in {0, 1}
        /\ exit_code = 0 <=> self.checks_failed = 0

C1_Witness == pc = "done" /\ exit_code = 0 /\ self.warnings = 2

\* C2: no check ends the run: main() is never left by an exception raised
\* inside a check.
C2_NoCheckTerminatesRun == pc # "raised"

\* C3 as stated: every check other than the security scan that returns has
\* recorded exactly one pass/fail result; the security scan one Fail per
\* issue or one Pass.
ScanCounts ==
    \/ NewPassed = 1 /\ NewFailed = 0 /\ Len(NewResults) = 1
    \/ NewPassed = 0 /\ NewFailed >= 1 /\ Len(NewResults) = NewFailed

KeyOutcome(passed, msg) == OneResult /\ NewResults[1] = <<"OpenAI API Key", passed, msg>>
                           /\ NewPassed = (IF passed THEN 1 ELSE 0)

HasPrefixSk(v) == Len(v) >= 3 /\ v[1] = "s" /\ v[2] = "k" /\ v[3] = "-"

\* C4 as stated: unset fails as not set; any value without the 'sk-' prefix,
\* the empty string included, fails as invalid format; a prefixed value of
\* length <= 20 fails as too short; a longer one passes.
C4_KeyClassification ==
    After("openai_api_key") =>
        LET k == env.api_key
        IN IF ~k.set THEN KeyOutcome(FALSE, MSG_NOT_SET)
           ELSE IF ~HasPrefixSk(k.value) THEN KeyOutcome(FALSE, MSG_FORMAT)
           ELSE IF Len(k.value) <= 20 THEN KeyOutcome(FALSE, MSG_SHORT)
           ELSE KeyOutcome(TRUE, MSG_VALID)

\* C4 amended: unset or set to the empty string fails as not set; a non-empty
\* value without the 'sk-' prefix fails as invalid format; a prefixed value of
\* length <= 20 fails as too short; a longer one passes.
C4_KeyClassificationEmptyNotSet ==
    After("openai_api_key") =>
        LET k == env.api_key
        IN IF ~k.set \/ Len(k.value) = 0 THEN KeyOutcome(FALSE, MSG_NOT_SET)
           ELSE IF ~HasPrefixSk(k.value) THEN KeyOutcome(FALSE, MSG_FORMAT)
           ELSE IF Len(k.value) <= 20 THEN KeyOutcome(FALSE, MSG_SHORT)
           ELSE KeyOutcome(TRUE, MSG_VALID)

C4_Witness == After("openai_api_key") /\ env.api_key.set
              /\ Len(env.api_key.value) = 20 /\ HasPrefixSk(env.api_key.value)
              /\ NewResults = <<(<<"OpenAI API Key", FALSE, MSG_SHORT>>)>>

\* C5: the scan records one Fail per readable .py file outside .git
\* directories whose content has 'sk-' and lacks 'OPENAI_API_KEY', naming its
\* path, no other Fail, and a single Pass exactly when there is no such file;
\* unreadable files add nothing.
Scanned(p) == /\ Len(p[2]) >= 3 /\ SubSeq(p[2], Len(p[2]) - 2, Len(p[2])) = DOT_PY
              /\ \A i \in 1..Len(p[1]) : p[1][i] # DOT_GIT

HasText(c, t) == \E i \in 1..Len(c) : i + Len(t) - 1 <= Len(c)
                    /\ \A j \in 1..Len(t) : c[i + j - 1] = t[j]

Leaky == {p \in DOMAIN env.fs : /\ Scanned(p)
                                /\ env.fs[p].readable
                                /\ HasText(env.fs[p].content, SK)
                                /\ ~HasText(env.fs[p].content, OPENAI_API_KEY)}

PathText(p) == join("/", p[1]) \o <<"/">> \o p[2]

FailFor(p) == <<"Security Protocols", FALSE, <<"Potential hardcoded key in ">> \o PathText(p)>>

C5_OneFailPerLeakyFile ==
    After("security_protocols") =>
        LET new == NewResults
        IN /\ \A p \in Leaky : Cardinality({i \in 1..Len(new) : new[i] = FailFor(p)}) = 1
           /\ \A i \in 1..Len(new) :
                 new[i][2] = FALSE => \E p \in Leaky : new[i] = FailFor(p)
           /\ Cardinality({i \in 1..Len(new) : new[i][2]}) = (IF Leaky = {} THEN 1 ELSE 0)
           /\ NewFailed = Cardinality(Leaky)
           /\ NewPassed = (IF Leaky = {} THEN 1 ELSE 0)

C5_Witness ==
    /\ After("security_protocols")
    /\ Cardinality(Leaky) = 1
    /\ \E p \in DOMAIN env.fs : Scanned(p) /\ ~env.fs[p].readable
    /\ NewFailed = 1 /\ NewPassed = 0

\* C6: git status --porcelain returning 0 with blank output records one Pass
\* ('clean'); returning 0 with other output records one warning and no
\* pass/fail result; a non-zero return code records one Fail; a missing git
\* executable records one Fail; with uncommitted changes an exit code of 1 is
\* always due to a failed result of another check.
GitOutcome(passed, msg) == OneResult /\ NewWarnings = 0
                           /\ NewResults[1] = <<"Git Status", passed, msg>>
                           /\ NewFailed = (IF passed THEN 0 ELSE 1)

C6_GitClassification ==
    /\ After("git_status") =>
          IF env.git.raised = "FileNotFoundError"
          THEN GitOutcome(FALSE, <<"Git not installed">>)
          ELSE IF env.git.returncode # 0
          THEN GitOutcome(FALSE, <<"Not a git repository or git error">>)
          ELSE IF Dirty
          THEN /\ NewResults = <<>> /\ NewFailed = 0 /\ NewPassed = 0 /\ NewWarnings = 1
               /\ self.out[Len(self.out)].kind = "WARN"
          ELSE GitOutcome(TRUE, <<"Working directory clean">>)
    /\ (pc = "done" /\ Dirty) =>
          /\ \A i \in 1..Len(self.results) : self.results[i][1] # "Git Status"
          /\ exit_code = 1 => \E i \in 1..Len(self.results) : ~self.results[i][2]

C6_Witness == pc = "done" /\ Dirty /\ exit_code = 0 /\ self.warnings >= 1
              /\ env.git.stdout[1] \in Whitespace

\* C7 as stated: outcomes appear in the order version, credential,
\* dependencies, connectivity, scan results, .env warning, git, summary.
Rank(line, scan, dotenvWarn) ==
    IF line.kind = "HEADER" THEN 0
    ELSE IF line.kind = "SUMMARY" THEN 8
    ELSE IF line.name = "Python Version" THEN 1
    ELSE IF line.name = "OpenAI API Key" THEN 2
    ELSE IF line.name = "Required Packages" THEN 3
    ELSE IF line.name = "OpenAI API Connectivity" THEN 4
    ELSE IF line.name = "Security Protocols" THEN scan
    ELSE IF line.name = "Security Check" THEN dotenvWarn
    ELSE IF line.name = "Git Status" THEN 7
    ELSE 9

InOrder(scan, dotenvWarn) ==
    \A i, j \in 1..Len(self.out) :
        i < j => Rank(self.out[i], scan, dotenvWarn) <= Rank(self.out[j], scan, dotenvWarn)

C7_ScanBeforeEnvWarning == InOrder(5, 6)

\* C7 amended: the outcomes emitted appear in the order version, credential,
\* dependencies, connectivity, .env warning, scan results, git; the summary,
\* once printed, is the last line and every check has emitted before it.
C7_EnvWarningBeforeScan ==
    /\ InOrder(6, 5)
    /\ pc \in {"return", "done"} =>
          /\ self.out[Len(self.out)].kind = "SUMMARY"
          /\ \A n \in CheckNames : Emitted(n)

C7_Witness ==
    /\ pc = "done" /\ env.dotenv
    /\ \E i, j \in 1..Len(self.out) :
          /\ i < j
          /\ self.out[i].name = "Security Check"
          /\ self.out[j].name = "Security Protocols" /\ self.out[j].kind = "FAIL"

\* C8: the package check records exactly one result: Pass when no required
\* package raises ImportError, else one Fail listing exactly the packages that
\* raised it, in the order of the required list.
Missing == {p \in Packages : env.imports[p] = "ImportError"}
IndexOf(p) == CHOOSE i \in 1..Len(required_packages) : required_packages[i] = p

C8_MissingPackagesListed ==
    After("required_packages") =>
        /\ OneResult
        /\ NewResults[1][1] = "Required Packages"
        /\ NewResults[1][2] <=> Missing = {}
        /\ Missing # {} =>
              LET d == NewResults[1][3]
                  k == Cardinality(Missing)
              IN /\ Len(d) = 2 * k
                 /\ d[1] = "Missing packages: "
                 /\ {d[2 * i] : i \in 1..k} = Missing
                 /\ \A i \in 1..(k - 1) : d[2 * i + 1] = ", "
                 /\ \A i, j \in 1..k : i < j => IndexOf(d[2 * i]) < IndexOf(d[2 * j])

C8_Witness == After("required_packages") /\ Cardinality(Missing) = 3
              /\ NewFailed = 1 /\ env.imports["openai"] = "ok"

\* C9: after any sequence of direct check_result and warning_result calls,
\* checks_passed + checks_failed is the number of check_result calls and the
\* length of results; check_result appends its entry and adds 1 to exactly the
\* counter its flag names; warning_result adds 1 to warnings only.
CountFlag(rs, b) == Cardinality({i \in 1..Len(rs) : rs[i][2] = b})

C9_CountersMatchCalls ==
    /\ pc = "direct" =>
          /\ Total(self) = self.calls.check_result
          /\ Len(self.results) = self.calls.check_result
          /\ self.warnings = self.calls.warning_result
          /\ self.checks_passed = CountFlag(self.results, TRUE)
          /\ self.checks_failed = CountFlag(self.results, FALSE)
    /\ prev.step = "check_result" =>
          /\ Len(NewResults) = 1
          /\ SubSeq(self.results, 1, Len(prev.m.results)) = prev.m.results
          /\ NewPassed = (IF NewResults[1][2] THEN 1 ELSE 0)
          /\ NewFailed = (IF NewResults[1][2] THEN 0 ELSE 1)
          /\ NewWarnings = 0
    /\ prev.step = "warning_result" =>
          /\ NewWarnings = 1
          /\ self.checks_passed = prev.m.checks_passed
          /\ self.checks_failed = prev.m.checks_failed
          /\ self.results = prev.m.results

C9_Witness == /\ pc = "direct" /\ prev.step = "warning_result"
              /\ self.checks_passed = 1 /\ self.checks_failed = 2 /\ self.warnings = 1

\* C10: the status line of the summary is 'ready' exactly when main returns
\* 0 and 'not ready' exactly when it returns 1, both on the same value of
\* checks_failed; with no check recorded the success rate is 0.
C10_StatusAgreesWithExitCode ==
    /\ pc = "done" =>
          /\ summary.printed
          /\ summary.status = "READY FOR OPERATIONS" <=> exit_code = 0
          /\ summary.status = "NOT READY - RESOLVE ISSUES" <=> exit_code = 1
          /\ summary.failed = self.checks_failed
    /\ summary.printed =>
          /\ summary.total = 0 => summary.success_rate = 0
          /\ summary.total > 0 =>
                /\ summary.success_rate * summary.total * 2
                       <= summary.passed * 2000 + summary.total
                /\ summary.success_rate * summary.total * 2
                       >= summary.passed * 2000 - summary.total

C10_Witness == pc = "done" /\ exit_code = 0 /\ summary.total = 0
               /\ summary.success_rate = 0 /\ summary.warnings = 1
               /\ summary.status = "READY FOR OPERATIONS"
====
